---- MODULE Spec2Model ----
(***************************************************************************)
(* Model of the sprite data editor of Miyamoto (src/widgets.py,            *)
(* SpriteEditorWidget): the bit-packed 12-byte record codec                *)
(* (PropertyDecoder.retrieve / insertvalue and the four decoder classes)   *)
(* and the editor that keeps the raw hex view, the field widgets and the   *)
(* buffer in sync (update, HandleFieldUpdate, HandleRawDataEdited).        *)
(*                                                                         *)
(* Conventions.  A buffer (Python bytes) is a sequence of integers in      *)
(* 0..255; Python index k is TLA+ index k + 1.  A field's `bit` is a       *)
(* sequence: <<lo, hi>> for a Python tuple, <<p>> for a plain integer.     *)
(* A raised Python exception is the value Err (integer results) or ErrBuf  *)
(* (buffer results).  insertvalue's `return 0` is the value IntZero.       *)
(***************************************************************************)
EXTENDS Integers, Sequences, FiniteSets, TLC

\* length of the sprite data buffer
N == 12

\* a raised exception, where an integer was expected
Err == -1

\* a raised exception, where a buffer was expected
ErrBuf == <<-2>>

\* the integer 0 that insertvalue returns instead of bytes
IntZero == <<-1>>

\* twelve zero bytes, the editor's initial data
Zeros == [k \in 1..N |-> 0]

Ones == [k \in 1..N |-> 255]

\* TRUE for a Python bytes object
IsBytes(data) == \A k \in 1..Len(data) : data[k] \in 0..255

----------------------------------------------------------------------------
(* Integer bit arithmetic *)

RECURSIVE Pow2(_)
Pow2(k) == IF k <= 0 THEN 1 ELSE 2 * Pow2(k - 1)

RECURSIVE BitAnd(_, _)
BitAnd(a, b) ==
    IF a <= 0 \/ b <= 0 THEN 0
    ELSE (a % 2) * (b % 2) + 2 * BitAnd(a \div 2, b \div 2)

RECURSIVE BitOr(_, _)
BitOr(a, b) ==
    IF a <= 0 THEN b
    ELSE IF b <= 0 THEN a
    ELSE (IF (a % 2) + (b % 2) > 0 THEN 1 ELSE 0) + 2 * BitOr(a \div 2, b \div 2)

RECURSIVE BitXor(_, _)
BitXor(a, b) ==
    IF a <= 0 THEN b
    ELSE IF b <= 0 THEN a
    ELSE (((a % 2) + (b % 2)) % 2) + 2 * BitXor(a \div 2, b \div 2)

\* F applied to the value of x: x is evaluated once, as a Python statement
\* that assigns to a local before the statements that follow use it
Bind(x, F(_)) == CHOOSE r \in { F(v) : v \in {x} } : TRUE

\* (byte >> sh) & 1
ShiftBit(byte, sh) == (byte \div Pow2(sh)) % 2

\* data with Python index k replaced by v
SetByte(data, k, v) == [data EXCEPT ![k + 1] = v]

----------------------------------------------------------------------------
(* PropertyDecoder.retrieve *)

RECURSIVE retrieveLoop(_, _, _, _)
retrieveLoop(data, n, hi, value) ==
    IF n >= hi THEN value
    ELSE IF (n - 1) \div 8 >= Len(data) THEN Err
    ELSE retrieveLoop(data, n + 1, hi,
             value * 2 + ShiftBit(data[((n - 1) \div 8) + 1], 7 - ((n - 1) % 8)))

retrieveFastPath(bit) == bit[2] = bit[1] + 7 /\ bit[1] % 2 = 1

\* retrieve with the single-bit length test made on bit >> 3 before bit -= 1
retrieveEarlyTest(bit, data) ==
    IF ~IsBytes(data) THEN Err
    ELSE IF Len(bit) = 2
    THEN IF retrieveFastPath(bit)
         THEN IF bit[1] \div 8 >= Len(data) THEN Err
              ELSE data[(bit[1] \div 8) + 1]
         ELSE retrieveLoop(data, bit[1], bit[2], 0)
    ELSE LET b == bit[1] - 1 IN
         IF bit[1] \div 8 >= Len(data) THEN 0
         ELSE ShiftBit(data[(b \div 8) + 1], 7 - (b % 8))

retrieve(bit, data) ==
    IF ~IsBytes(data) THEN Err
    ELSE IF Len(bit) = 2
    THEN IF retrieveFastPath(bit)
         THEN IF bit[1] \div 8 >= Len(data) THEN Err
              ELSE data[(bit[1] \div 8) + 1]
         ELSE retrieveLoop(data, bit[1], bit[2], 0)
    ELSE LET b == bit[1] - 1 IN
         IF b \div 8 >= Len(data) THEN 0
         ELSE ShiftBit(data[(b \div 8) + 1], 7 - (b % 8))

----------------------------------------------------------------------------
(* PropertyDecoder.insertvalue *)

\* WriteBit with the set branch written as a toggle (sdata[byte] ^= off)
WriteBitToggle(sdata, byte, sh, value) ==
    LET old == sdata[byte + 1]
        cur == ShiftBit(old, sh)
    IN  IF value % 2 = 1
        THEN SetByte(sdata, byte, old + (1 - 2 * cur) * Pow2(sh))
        ELSE SetByte(sdata, byte, old - cur * Pow2(sh))

\* sdata[byte] |= off  /  sdata[byte] &= 0xFF ^ off, chosen by value & 1
WriteBit(sdata, byte, sh, value) ==
    LET old == sdata[byte + 1]
        cur == ShiftBit(old, sh)
    IN  IF value % 2 = 1
        THEN SetByte(sdata, byte, old + (1 - cur) * Pow2(sh))
        ELSE SetByte(sdata, byte, old - cur * Pow2(sh))

RECURSIVE insertLoop(_, _, _, _)
insertLoop(sdata, n, lo, value) ==
    IF n < lo THEN sdata
    ELSE IF (n - 1) \div 8 >= Len(sdata) THEN ErrBuf
    ELSE Bind(WriteBit(sdata, (n - 1) \div 8, 7 - ((n - 1) % 8), value),
              LAMBDA s1 : insertLoop(s1, n - 1, lo, value \div 2))

insertFastPath(bit) == bit[2] = bit[1] + 7 /\ bit[1] % 2 = 1

insertvalue(bit, data, value) ==
    IF ~IsBytes(data) \/ value = Err THEN ErrBuf
    ELSE IF Len(bit) = 2
    THEN IF insertFastPath(bit)
         THEN IF (bit[1] - 1) \div 8 >= Len(data) THEN ErrBuf
              ELSE SetByte(data, (bit[1] - 1) \div 8, value % 256)
         ELSE insertLoop(data, bit[2] - 1, bit[1], value)
    ELSE LET byte == (bit[1] - 1) \div 8 IN
         IF byte >= Len(data) THEN IntZero
         ELSE WriteBit(data, byte, 7 - ((bit[1] - 1) % 8), value)

----------------------------------------------------------------------------
(* Field descriptors: the tuples of sprite.fields that setSprite turns     *)
(* into decoder objects.  One record shape for the four classes.           *)

CheckboxField(bit, mask) ==
    [kind |-> "Checkbox", bit |-> bit, mask |-> mask, entries |-> <<>>,
     max |-> 0, startbit |-> 0, bitnum |-> 0]

ListField(bit, entries) ==
    [kind |-> "List", bit |-> bit, mask |-> 0, entries |-> entries,
     max |-> 0, startbit |-> 0, bitnum |-> 0]

ValueField(bit, max) ==
    [kind |-> "Value", bit |-> bit, mask |-> 0, entries |-> <<>>,
     max |-> max, startbit |-> 0, bitnum |-> 0]

BitfieldField(startbit, bitnum) ==
    [kind |-> "Bitfield", bit |-> <<>>, mask |-> 0, entries |-> <<>>,
     max |-> 0, startbit |-> startbit, bitnum |-> bitnum]

----------------------------------------------------------------------------
(* CheckboxPropertyDecoder *)

\* the xormask computed by the constructor
xormask(bit) ==
    LET length == IF Len(bit) = 2 THEN bit[2] - bit[1] + 1 ELSE 1
    IN  Pow2(length) - 1

\* update: the value passed to setChecked
CheckboxUpdate(f, data) ==
    BitAnd(retrieve(f.bit, data), f.mask) = f.mask

\* assign
CheckboxAssign(f, checked, data) ==
    LET got == retrieve(f.bit, data)
        kept == BitAnd(got, BitXor(f.mask, xormask(f.bit)))
        value == IF checked THEN BitOr(kept, f.mask) ELSE kept
    IN  IF got = Err THEN ErrBuf ELSE insertvalue(f.bit, data, value)

----------------------------------------------------------------------------
(* ListPropertyDecoder.  The combobox model (entries, existingLookup) is   *)
(* built outside the modelled files: entries is the ordered list of raw    *)
(* values, existingLookup[v] is true exactly for the raw values listed.    *)

existingLookup(entries, value) == \E i \in 1..Len(entries) : entries[i] = value

\* update: the index passed to setCurrentIndex (0-based, -1 = no selection)
ListUpdate(f, data) ==
    LET value == retrieve(f.bit, data) IN
    IF ~existingLookup(f.entries, value) THEN -1
    ELSE (CHOOSE i \in 1..Len(f.entries) :
              /\ f.entries[i] = value
              /\ \A j \in 1..(i - 1) : f.entries[j] # value) - 1

\* self.model.entries[index][0] with Python's negative indexing
EntryAt(entries, index) ==
    IF index >= 0 /\ index < Len(entries) THEN entries[index + 1]
    ELSE IF index < 0 /\ -index <= Len(entries) THEN entries[Len(entries) + index + 1]
    ELSE Err

\* assign
ListAssign(f, index, data) == insertvalue(f.bit, data, EntryAt(f.entries, index))

----------------------------------------------------------------------------
(* ValuePropertyDecoder *)

\* QSpinBox.setValue under setRange(0, max - 1)
SpinClamp(max, value) ==
    IF value < 0 THEN 0 ELSE IF value > max - 1 THEN max - 1 ELSE value

\* update: the value the spinbox shows after setValue
ValueUpdate(f, data) == SpinClamp(f.max, retrieve(f.bit, data))

\* assign
ValueAssign(f, value, data) == insertvalue(f.bit, data, value)

----------------------------------------------------------------------------
(* BitfieldPropertyDecoder *)

\* update, one checkbox: the state passed to setChecked for index bitIdx
BitfieldBit(f, bitIdx, data) ==
    LET adjustedIdx == bitIdx + f.startbit
    IN  ShiftBit(data[(adjustedIdx \div 8) + 1], 7 - (adjustedIdx % 8)) = 1

\* update, one checkbox: data[byteNum] raises
BitfieldBitRaises(f, bitIdx, data) ==
    ~IsBytes(data) \/ (bitIdx + f.startbit) \div 8 >= Len(data)

\* update: the states of all the checkboxes
BitfieldUpdate(f, data) ==
    [i \in 1..f.bitnum |-> BitfieldBit(f, i - 1, data)]

RECURSIVE BitfieldAssignLoop(_, _, _, _)
BitfieldAssignLoop(f, checks, data, idx) ==
    IF idx >= f.bitnum THEN data
    ELSE LET adjustedIdx == idx + f.startbit
             byteIdx == adjustedIdx \div 8
             bitIdx == adjustedIdx % 8
         IN  IF byteIdx >= Len(data) THEN ErrBuf
             ELSE LET origByte == data[byteIdx + 1]
                      origBit == ShiftBit(origByte, 7 - bitIdx)
                      newBit == IF checks[idx + 1] THEN 1 ELSE 0
                      newByte == IF origBit = 0 /\ newBit = 1
                                 THEN origByte + Pow2(7 - bitIdx)
                                 ELSE origByte - Pow2(7 - bitIdx)
                  IN  IF origBit = newBit
                      THEN BitfieldAssignLoop(f, checks, data, idx + 1)
                      ELSE Bind(SetByte(data, byteIdx, newByte),
                                LAMBDA d1 : BitfieldAssignLoop(f, checks, d1, idx + 1))

\* assign
BitfieldAssign(f, checks, data) ==
    IF ~IsBytes(data) THEN ErrBuf ELSE BitfieldAssignLoop(f, checks, data, 0)

----------------------------------------------------------------------------
(* Dispatch on the decoder class *)

\* f.update(data) raises
UpdateRaises(f, data) ==
    CASE f.kind = "Bitfield" ->
             \E i \in 0..(f.bitnum - 1) : BitfieldBitRaises(f, i, data)
      [] OTHER -> retrieve(f.bit, data) = Err

\* what f.update(data) makes the widget show
decode(f, data) ==
    CASE f.kind = "Checkbox" -> CheckboxUpdate(f, data)
      [] f.kind = "List" -> ListUpdate(f, data)
      [] f.kind = "Value" -> ValueUpdate(f, data)
      [] OTHER -> BitfieldUpdate(f, data)

\* f.assign(data) with the widget showing shown
encode(f, shown, data) ==
    CASE f.kind = "Checkbox" -> CheckboxAssign(f, shown, data)
      [] f.kind = "List" -> ListAssign(f, shown, data)
      [] f.kind = "Value" -> ValueAssign(f, shown, data)
      [] OTHER -> BitfieldAssign(f, shown, data)

----------------------------------------------------------------------------
(* Raw hex text.  A text is a sequence of one-character strings.           *)

HexLower == <<"0", "1", "2", "3", "4", "5", "6", "7", "8", "9",
              "a", "b", "c", "d", "e", "f">>

HexUpper == <<"0", "1", "2", "3", "4", "5", "6", "7", "8", "9",
              "A", "B", "C", "D", "E", "F">>

\* the characters bytes.fromhex skips (ASCII whitespace, Python 3.7 and later)
AsciiWhitespace == {" ", "\t", "\n", "\r"}

\* the value of each hex digit
HexTable ==
    [c \in {HexLower[i] : i \in 1..16} \cup {HexUpper[i] : i \in 1..16} |->
        IF \E i \in 1..16 : HexLower[i] = c
        THEN (CHOOSE i \in 1..16 : HexLower[i] = c) - 1
        ELSE (CHOOSE i \in 1..16 : HexUpper[i] = c) - 1]

\* the value of a hex digit, -1 for any other character
HexValue(c) == IF c \in DOMAIN HexTable THEN HexTable[c] ELSE -1

\* Hex02 with the two digits in the other order
Hex02Swapped(byte) == <<HexLower[(byte % 16) + 1], HexLower[(byte \div 16) + 1]>>

\* '%02x' % byte
Hex02(byte) == <<HexLower[(byte \div 16) + 1], HexLower[(byte % 16) + 1]>>

\* '%02x%02x %02x%02x %02x%02x %02x%02x %02x%02x %02x%02x' % (data[0..11])
FormatRaw(data) ==
    Hex02(data[1]) \o Hex02(data[2]) \o <<" ">> \o
    Hex02(data[3]) \o Hex02(data[4]) \o <<" ">> \o
    Hex02(data[5]) \o Hex02(data[6]) \o <<" ">> \o
    Hex02(data[7]) \o Hex02(data[8]) \o <<" ">> \o
    Hex02(data[9]) \o Hex02(data[10]) \o <<" ">> \o
    Hex02(data[11]) \o Hex02(data[12])

\* the format expression raises (data[11] out of range, or data not bytes)
FormatRaises(data) == ~IsBytes(data) \/ Len(data) < N

\* text.replace(' ', '')
StripSpaces(text) == SelectSeq(text, LAMBDA c : c # " ")

\* bytes.fromhex(text): whitespace is skipped before each byte, the two
\* digits of a byte must be adjacent; ErrBuf stands for ValueError
RECURSIVE fromhexLoop(_, _, _)
fromhexLoop(text, p, out) ==
    IF p > Len(text) THEN out
    ELSE IF text[p] \in AsciiWhitespace THEN fromhexLoop(text, p + 1, out)
    ELSE IF p + 1 > Len(text) \/ HexValue(text[p]) < 0 \/ HexValue(text[p + 1]) < 0
    THEN ErrBuf
    ELSE fromhexLoop(text, p + 2,
             Append(out, 16 * HexValue(text[p]) + HexValue(text[p + 1])))

fromhex(text) == fromhexLoop(text, 1, <<>>)

\* the `valid` flag of HandleRawDataEdited
RawValid(text) == Len(StripSpaces(text)) = 2 * N /\ fromhex(text) # ErrBuf

----------------------------------------------------------------------------
(* The sprite definitions the editor is opened on (sprite.fields)          *)

Sprites ==
    << \* a flag in byte 0, a 2-bit value, a 2-bit list, two single bits
       << CheckboxField(<<1, 8>>, 2), ValueField(<<9, 11>>, 4),
          ListField(<<12, 14>>, <<0, 1, 3>>), BitfieldField(16, 2) >>,
       \* a two-bit mask and a value whose max is below its bit width
       << CheckboxField(<<1, 8>>, 3), ValueField(<<9, 12>>, 6) >>,
       \* a value whose max is the full width of positions 1..4
       << ValueField(<<1, 4>>, 16), CheckboxField(<<5>>, 1) >>,
       \* an 8-bit range starting at position 3, next to a 2-bit value
       << ValueField(<<1, 3>>, 4), ValueField(<<3, 10>>, 4) >>,
       \* fields on the same bits
       << BitfieldField(0, 3), ListField(<<1, 4>>, <<0, 1, 2, 5>>) >>,
       \* a list on the bits of a value, some raw values not listed
       << ValueField(<<1, 4>>, 8), ListField(<<1, 4>>, <<0, 1, 3>>) >>,
       \* four one-bit values (max 2) on the overlapping positions 3..5
       << ValueField(<<3, 5>>, 2), ValueField(<<4>>, 2),
          ValueField(<<3, 4>>, 2), ValueField(<<3>>, 2) >>,
       \* a value on the last four positions of the buffer
       << CheckboxField(<<1>>, 1), ValueField(<<93, 96>>, 16) >>,
       \* four single bits on the last four positions of the buffer
       << CheckboxField(<<1>>, 1), BitfieldField(93, 4) >> >>

\* the data of another sprite of the level
OtherData == <<179, 208, 192, 0, 0, 0, 0, 0, 0, 0, 0, 0>>

\* the buffers of the sprites that can be selected in the level
EditBuffers == { Zeros, OtherData }

Rep(c, n) == [k \in 1..n |-> c]

\* what the user can leave in the raw editor
RawTexts ==
    { FormatRaw(b) : b \in EditBuffers }
    \cup { <<"B", "3", "D", "0", "C", "0">> \o Rep("0", 18),
           Rep("0", 20),
           Rep("0", 4) \o <<"\t">> \o Rep("0", 20),
           Rep("f", 22) \o <<"\t", "\t">> }

\* nesting depth of field-update notifications explored
MaxDepth == 4

----------------------------------------------------------------------------
(* The editor.  A handler runs to completion, nested notifications         *)
(* included, so each is an operator from editor state to editor state.     *)
(* st.exc: an exception is propagating out of the current call;            *)
(* st.raised: some handler of this operation ended with an exception;      *)
(* st.deep: a notification was cut off at MaxDepth;                        *)
(* st.notified: the fields whose widget signalled a change while being     *)
(* refreshed, in order;                                                    *)
(* st.active: the HandleFieldUpdate calls in progress, each as the field   *)
(* with the data and widget values it was entered on;                      *)
(* st.calls: the calls of field.assign (in HandleFieldUpdate) and of        *)
(* f.update (in the three fan-outs) in order, each with the field, the     *)
(* data it was given and what the field's widget showed at the call;       *)
(* st.looped: HandleFieldUpdate was entered on the field, data and widget  *)
(* values of a call still in progress: the handlers being deterministic,   *)
(* the nesting repeats without end (the interpreter's recursion limit      *)
(* ends it), and the model follows the chain no further.                   *)

\* the inputs and results of the codec specification (see below)
VARIABLES cField, cOther, cBuf, cShown, cPhase, cGot, cOut

cvars == <<cField, cOther, cBuf, cShown, cPhase, cGot, cOut>>

VARIABLES spritetype, data, shown, UpdateFlag, rawText, rawInvalid,
          emitted, raised, deep, looped, notified, calls, lastOp

evars == <<spritetype, data, shown, UpdateFlag, rawText, rawInvalid,
           emitted, raised, deep, looped, notified, calls, lastOp>>

fields == Sprites[spritetype]

Current ==
    [data |-> data, shown |-> shown, UpdateFlag |-> UpdateFlag,
     rawText |-> rawText, rawInvalid |-> rawInvalid,
     emitted |-> <<>>, raised |-> FALSE, deep |-> FALSE, notified |-> <<>>,
     calls |-> <<>>, active |-> {}, looped |-> FALSE, exc |-> FALSE]

\* the editor state with a call of fields[j].assign or fields[j].update on
\* d recorded
Called(st, ev, j, d) ==
    [st EXCEPT !.calls = Append(@, [ev |-> ev, field |-> j, data |-> d,
                                    value |-> st.shown[j]])]

RECURSIVE HandleFieldUpdate(_, _, _)
RECURSIVE FanOut(_, _, _, _, _)
RECURSIVE BitfieldWidgetLoop(_, _, _, _, _)

\* updateData.emit(self) reaching the connected slot HandleFieldUpdate;
\* an exception in the slot does not propagate to the emitter
Notify(st, j, depth) ==
    IF ~st.UpdateFlag /\ <<j, st.data, st.shown>> \in st.active
    THEN [st EXCEPT !.notified = Append(@, j), !.looped = TRUE]
    ELSE IF depth >= MaxDepth
    THEN [st EXCEPT !.notified = Append(@, j), !.deep = TRUE]
    ELSE [HandleFieldUpdate(
              [st EXCEPT !.notified = Append(@, j),
                         !.active = @ \cup {<<j, st.data, st.shown>>}],
              j, depth + 1)
          EXCEPT !.active = st.active]

\* ListWidgetSet with HandleIndexChanged emitting for index -1 as well
ListWidgetSetAlways(st, j, idx, depth) ==
    IF st.shown[j] = idx THEN st
    ELSE Bind([st EXCEPT !.shown[j] = idx], LAMBDA s1 : Notify(s1, j, depth))

\* QComboBox.setCurrentIndex(idx): currentIndexChanged -> HandleIndexChanged
ListWidgetSet(st, j, idx, depth) ==
    IF st.shown[j] = idx THEN st
    ELSE IF idx < 0 THEN [st EXCEPT !.shown[j] = idx]
    ELSE Bind([st EXCEPT !.shown[j] = idx], LAMBDA s1 : Notify(s1, j, depth))

\* QSpinBox.setValue(v): valueChanged -> HandleValueChanged
ValueWidgetSet(st, j, v, depth) ==
    IF st.shown[j] = v THEN st
    ELSE Bind([st EXCEPT !.shown[j] = v], LAMBDA s1 : Notify(s1, j, depth))

\* BitfieldPropertyDecoder.update: setChecked on each checkbox in turn,
\* toggled -> HandleValueChanged for each checkbox that changes
BitfieldWidgetLoop(st, j, d, bitIdx, depth) ==
    IF bitIdx >= fields[j].bitnum \/ st.looped THEN st
    ELSE IF BitfieldBitRaises(fields[j], bitIdx, d) THEN [st EXCEPT !.exc = TRUE]
    ELSE IF st.shown[j][bitIdx + 1] = BitfieldBit(fields[j], bitIdx, d)
    THEN BitfieldWidgetLoop(st, j, d, bitIdx + 1, depth)
    ELSE Bind([st EXCEPT !.shown[j][bitIdx + 1] = BitfieldBit(fields[j], bitIdx, d)],
              LAMBDA s1 : Bind(Notify(s1, j, depth),
                               LAMBDA s2 : BitfieldWidgetLoop(s2, j, d, bitIdx + 1, depth)))

\* fields[j].update(d)
FieldUpdate(st, j, d, depth) ==
    LET f == fields[j] IN
    CASE f.kind = "Bitfield" -> BitfieldWidgetLoop(st, j, d, 0, depth)
      [] f.kind # "Bitfield" /\ retrieve(f.bit, d) = Err -> [st EXCEPT !.exc = TRUE]
      [] f.kind = "Checkbox" /\ retrieve(f.bit, d) # Err ->
             [st EXCEPT !.shown[j] = CheckboxUpdate(f, d)]
      [] f.kind = "List" /\ retrieve(f.bit, d) # Err ->
             Bind(ListUpdate(f, d), LAMBDA idx : ListWidgetSet(st, j, idx, depth))
      [] f.kind = "Value" /\ retrieve(f.bit, d) # Err ->
             Bind(ValueUpdate(f, d), LAMBDA v : ValueWidgetSet(st, j, v, depth))

\* for f in self.fields: [if f != field:] f.update(d), from index j on
FanOut(st, skip, d, j, depth) ==
    IF j > Len(fields) \/ st.looped THEN st
    ELSE IF j = skip THEN FanOut(st, skip, d, j + 1, depth)
    ELSE Bind(FieldUpdate(Called(st, "update", j, d), j, d, depth),
              LAMBDA s1 : IF s1.exc THEN s1 ELSE FanOut(s1, skip, d, j + 1, depth))

\* HandleFieldUpdate from the raw editor's setText on: d is the local data
FieldUpdateTail(st, i, d, depth) ==
    Bind([st EXCEPT !.data = d, !.rawText = FormatRaw(d), !.rawInvalid = FALSE],
         LAMBDA s0 : Bind(FanOut(s0, i, d, 1, depth),
             LAMBDA s1 : IF s1.exc THEN [s1 EXCEPT !.exc = FALSE, !.raised = TRUE]
                         ELSE [s1 EXCEPT !.emitted = Append(@, d)]))

\* HandleFieldUpdate without its test of UpdateFlag
HandleFieldUpdateUnguarded(st, i, depth) ==
    Bind(encode(fields[i], st.shown[i], st.data),
         LAMBDA d : IF d = ErrBuf \/ FormatRaises(d)
                    THEN [Called(st, "assign", i, st.data) EXCEPT !.raised = TRUE]
                    ELSE FieldUpdateTail(Called(st, "assign", i, st.data),
                                         i, d, depth))

\* HandleFieldUpdate(field), field = fields[i]
HandleFieldUpdate(st, i, depth) ==
    IF st.UpdateFlag THEN st
    ELSE Bind(encode(fields[i], st.shown[i], st.data),
              LAMBDA d : IF d = ErrBuf
                         THEN [Called(st, "assign", i, st.data) EXCEPT !.raised = TRUE]
                         ELSE IF FormatRaises(d)
                         THEN [Called(st, "assign", i, st.data)
                                   EXCEPT !.data = d, !.raised = TRUE]
                         ELSE FieldUpdateTail(Called(st, "assign", i, st.data),
                                              i, d, depth))

\* HandleRawDataEdited from self.data = data on
RawDataTail(st, d) ==
    Bind([st EXCEPT !.rawInvalid = FALSE, !.data = d, !.UpdateFlag = TRUE],
         LAMBDA s0 : Bind(FanOut(s0, 0, d, 1, 0),
             LAMBDA s1 : IF s1.exc THEN [s1 EXCEPT !.exc = FALSE, !.raised = TRUE]
                         ELSE [s1 EXCEPT !.UpdateFlag = FALSE,
                                         !.emitted = Append(@, d)]))

\* HandleRawDataEdited(text)
HandleRawDataEdited(st, text) ==
    IF ~RawValid(text) THEN [st EXCEPT !.rawInvalid = TRUE]
    ELSE Bind(fromhex(text), LAMBDA d : RawDataTail(st, d))

\* UpdateTail ending with DataUpdate.emit(d), as HandleRawDataEdited does
UpdateTailEmitting(st, d) ==
    Bind([st EXCEPT !.UpdateFlag = TRUE, !.rawText = FormatRaw(d),
                    !.rawInvalid = FALSE],
         LAMBDA s0 : Bind(FanOut(s0, 0, d, 1, 0),
             LAMBDA s1 : IF s1.exc THEN [s1 EXCEPT !.exc = FALSE, !.raised = TRUE]
                         ELSE [s1 EXCEPT !.UpdateFlag = FALSE,
                                         !.emitted = Append(@, d)]))

\* update() from the raw editor's setText on
UpdateTail(st, d) ==
    Bind([st EXCEPT !.UpdateFlag = TRUE, !.rawText = FormatRaw(d),
                    !.rawInvalid = FALSE],
         LAMBDA s0 : Bind(FanOut(s0, 0, d, 1, 0),
             LAMBDA s1 : IF s1.exc THEN [s1 EXCEPT !.exc = FALSE, !.raised = TRUE]
                         ELSE [s1 EXCEPT !.UpdateFlag = FALSE]))

\* update()
EditorUpdate(st) ==
    IF FormatRaises(st.data) THEN [st EXCEPT !.UpdateFlag = TRUE, !.raised = TRUE]
    ELSE UpdateTail(st, st.data)

\* the editor state after a handler has returned; a handler whose nesting
\* repeats without end never returns, and the editor is left as it was
Becomes(st, op, field, accepted) ==
    /\ looped' = st.looped
    /\ IF st.looped
       THEN /\ lastOp' = [op |-> op, field |-> field, accepted |-> FALSE]
            /\ UNCHANGED <<data, shown, UpdateFlag, rawText, rawInvalid,
                           emitted, raised, deep, notified, calls>>
       ELSE /\ data' = st.data
            /\ shown' = st.shown
            /\ UpdateFlag' = st.UpdateFlag
            /\ rawText' = st.rawText
            /\ rawInvalid' = st.rawInvalid
            /\ emitted' = st.emitted
            /\ raised' = st.raised
            /\ deep' = st.deep
            /\ notified' = st.notified
            /\ calls' = st.calls
            /\ lastOp' = [op |-> op, field |-> field, accepted |-> accepted]
    /\ UNCHANGED <<spritetype, cvars>>

\* what the widgets show before the first update()
DefaultShown(f) ==
    CASE f.kind = "Checkbox" -> FALSE
      [] f.kind = "List" -> IF Len(f.entries) > 0 THEN 0 ELSE -1
      [] f.kind = "Value" -> 0
      [] OTHER -> [k \in 1..f.bitnum |-> FALSE]

\* constructor, setSprite(type), data = 12 zero bytes, update()
EditorInit ==
    /\ spritetype \in 1..Len(Sprites)
    /\ \E st \in {EditorUpdate(
                     [data |-> Zeros,
                      shown |-> [j \in 1..Len(fields) |-> DefaultShown(fields[j])],
                      UpdateFlag |-> FALSE, rawText |-> <<>>, rawInvalid |-> FALSE,
                      emitted |-> <<>>, raised |-> FALSE, deep |-> FALSE,
                      notified |-> <<>>, calls |-> <<>>, active |-> {},
                      looped |-> FALSE, exc |-> FALSE])} :
           /\ data = st.data
           /\ shown = st.shown
           /\ UpdateFlag = st.UpdateFlag
           /\ rawText = st.rawText
           /\ rawInvalid = st.rawInvalid
    /\ emitted = <<>>
    /\ raised = FALSE
    /\ deep = FALSE
    /\ looped = FALSE
    /\ notified = <<>>
    /\ calls = <<>>
    /\ lastOp = [op |-> "init", field |-> 0, accepted |-> FALSE]

\* the user changes widget i so that it shows v; the widget notifies
UserSets(i, v) ==
    /\ ~looped
    /\ \E s0 \in {[Current EXCEPT !.shown[i] = v,
                                  !.active = {<<i, data, [shown EXCEPT ![i] = v]>>}]} :
           \E st \in {HandleFieldUpdate(s0, i, 0)} :
               Becomes(st, "FieldEdited", i, ~UpdateFlag)

\* a click on a checkbox
ClickCheckbox(i) ==
    /\ fields[i].kind = "Checkbox"
    /\ UserSets(i, ~shown[i])

\* another entry picked in a combobox
PickEntry(i) ==
    /\ fields[i].kind = "List"
    /\ \E v \in 0..(Len(fields[i].entries) - 1) :
           /\ v # shown[i]
           /\ UserSets(i, v)

\* another value entered in a spinbox
EnterValue(i) ==
    /\ fields[i].kind = "Value"
    /\ \E v \in 0..(fields[i].max - 1) :
           /\ v # shown[i]
           /\ UserSets(i, v)

\* a click on one checkbox of a bitfield
ClickBit(i) ==
    /\ fields[i].kind = "Bitfield"
    /\ \E k \in 1..fields[i].bitnum :
           UserSets(i, [shown[i] EXCEPT ![k] = ~@])

FieldEdited == \E i \in 1..Len(fields) :
    ClickCheckbox(i) \/ PickEntry(i) \/ EnterValue(i) \/ ClickBit(i)

\* the user edits the raw text (textEdited)
RawTextEdited == \E text \in RawTexts :
    /\ ~looped
    /\ text # rawText
    /\ \E s0 \in {[Current EXCEPT !.rawText = text]} :
           \E st \in {HandleRawDataEdited(s0, text)} :
               Becomes(st, "RawTextEdited", 0, RawValid(text))

\* another sprite's data is loaded into the editor: data = b, update()
BufferReplacedExternally == \E b \in EditBuffers :
    /\ ~looped
    /\ \E s0 \in {[Current EXCEPT !.data = b]} :
        \E st \in {EditorUpdate(s0)} :
            Becomes(st, "BufferReplacedExternally", 0, TRUE)

----------------------------------------------------------------------------
(* Inputs of the codec specification *)

\* ranges start at positions 1..MaxPos
MaxPos == 10

\* ranges span 1..MaxWidth positions
MaxWidth == 4

ProbeBuffers ==
    { Zeros, Ones,
      [Zeros EXCEPT ![1] = 176],
      [k \in 1..N |-> IF k % 2 = 1 THEN 85 ELSE 170],
      <<176, 15, 60, 129, 1, 128, 254, 127, 36, 219, 7, 224>> }

\* the legal display values of a field
Domain(f) ==
    CASE f.kind = "Checkbox" -> BOOLEAN
      [] f.kind = "List" -> 0..(Len(f.entries) - 1)
      [] f.kind = "Value" -> 0..(f.max - 1)
      [] OTHER -> [1..f.bitnum -> BOOLEAN]

ProbeFields ==
    { ValueField(<<lo, lo + w - 1>>, Pow2(w)) : lo \in 1..MaxPos, w \in 1..MaxWidth }
    \cup { ValueField(<<lo, 96>>, Pow2(97 - lo)) : lo \in (97 - MaxWidth)..96 }
    \cup { ValueField(<<lo, lo + 7>>, 256) : lo \in {1, 3, 9, 89} }
    \cup { ValueField(<<9, 12>>, 6), ValueField(<<9, 13>>, 6) }
    \cup { CheckboxField(<<1, 8>>, m) : m \in {1, 2, 3, 128} }
    \cup { CheckboxField(<<3, 6>>, m) : m \in {1, 6, 8} }
    \cup { CheckboxField(<<p>>, 1) : p \in {1, 8, 9, 96} }
    \cup { ListField(<<9, 12>>, <<0, 1, 3>>), ListField(<<5, 8>>, <<2, 5, 7, 12>>),
           ListField(<<1, 8>>, <<0, 4, 255>>) }
    \cup { BitfieldField(s, MaxWidth) : s \in {0, 1, 6, 96 - MaxWidth, 97 - MaxWidth} }
    \cup { BitfieldField(1, 8) }

\* a second field, for the effect of one field's assign on another
ProbeOthers ==
    { CheckboxField(<<p>>, 1) : p \in {1, 2, 5, 11} }
    \cup { ValueField(<<13, 16>>, 16), BitfieldField(16, 2) }

\* the bit positions (1-indexed) that the descriptor names:
\* lo..hi for a pair, p for a single bit, startbit..startbit+bitnum-1
SpecPositions(f) ==
    CASE f.kind = "Bitfield" -> f.startbit..(f.startbit + f.bitnum - 1)
      [] Len(f.bit) = 2 -> f.bit[1]..f.bit[2]
      [] OTHER -> {f.bit[1]}

\* the bit of a buffer at a 1-indexed position, bit 1 = MSB of byte 0
BitAt(buf, pos) == ShiftBit(buf[((pos - 1) \div 8) + 1], 7 - ((pos - 1) % 8))

\* the unsigned integer formed by the bits lo..hi inclusive, MSB first
RECURSIVE RangeValue(_, _, _)
RangeValue(buf, lo, hi) ==
    IF hi < lo THEN 0 ELSE 2 * RangeValue(buf, lo, hi - 1) + BitAt(buf, hi)

\* the raw integer a display value stands for
RawOf(f, v) ==
    CASE f.kind = "Checkbox" -> IF v THEN f.mask ELSE 0
      [] f.kind = "List" -> EntryAt(f.entries, v)
      [] OTHER -> v

----------------------------------------------------------------------------
(* The codec specification: Init draws a field, a buffer and a display     *)
(* value; each action applies one codec operation to them.                 *)

CodecIdle ==
    /\ cField = CheckboxField(<<1>>, 1)
    /\ cOther = CheckboxField(<<2>>, 1)
    /\ cBuf = Zeros
    /\ cShown = FALSE
    /\ cPhase = "off"
    /\ cGot = 0
    /\ cOut = Zeros

CodecInit ==
    /\ cField \in ProbeFields
    /\ cOther \in { g \in ProbeOthers : SpecPositions(g) \cap SpecPositions(cField) = {} }
    /\ cBuf \in ProbeBuffers
    /\ cShown \in Domain(cField)
    /\ cPhase = "start"
    /\ cGot = 0
    /\ cOut = cBuf

\* retrieve on the field's bit
DoRetrieve ==
    /\ cPhase = "start"
    /\ cField.kind # "Bitfield"
    /\ cGot' = retrieve(cField.bit, cBuf)
    /\ cPhase' = "retrieved"
    /\ UNCHANGED <<cField, cOther, cBuf, cShown, cOut, evars>>

\* insertvalue on the field's bit, then retrieve on the result
DoInsert ==
    /\ cPhase = "start"
    /\ cField.kind # "Bitfield"
    /\ cOut' = insertvalue(cField.bit, cBuf, RawOf(cField, cShown))
    /\ cGot' = retrieve(cField.bit, cOut')
    /\ cPhase' = "inserted"
    /\ UNCHANGED <<cField, cOther, cBuf, cShown, evars>>

\* assign with the widget showing cShown
DoEncode ==
    /\ cPhase = "start"
    /\ cOut' = encode(cField, cShown, cBuf)
    /\ cPhase' = "encoded"
    /\ UNCHANGED <<cField, cOther, cBuf, cShown, cGot, evars>>

\* update from the buffer, then assign what the widget shows
DoReencode ==
    /\ cPhase = "start"
    /\ cOut' = IF UpdateRaises(cField, cBuf) THEN ErrBuf
               ELSE encode(cField, decode(cField, cBuf), cBuf)
    /\ cPhase' = "reencoded"
    /\ UNCHANGED <<cField, cOther, cBuf, cShown, cGot, evars>>

\* update from the buffer: the widget shows the decoded value, or update
\* raises (cGot = Err)
DoDecode ==
    /\ cPhase = "start"
    /\ IF UpdateRaises(cField, cBuf)
       THEN cGot' = Err /\ cShown' = cShown
       ELSE cGot' = 0 /\ cShown' = decode(cField, cBuf)
    /\ cPhase' = "decoded"
    /\ UNCHANGED <<cField, cOther, cBuf, cOut, evars>>

\* text with its hex digits in upper case
ToUpper(text) ==
    [k \in 1..Len(text) |->
        IF HexValue(text[k]) >= 0 THEN HexUpper[HexValue(text[k]) + 1] ELSE text[k]]

\* ways of typing the 24 hex digits of a buffer into the raw editor:
\* as the editor shows them, without spaces, a space after every byte,
\* and each of these in upper case
Spellings(buf) ==
    LET shownText == FormatRaw(buf)
        bare == StripSpaces(shownText)
        spaced == [k \in 1..(3 * N - 1) |->
                      IF k % 3 = 0 THEN " " ELSE bare[k - (k \div 3)]]
    IN  { shownText, bare, spaced,
          ToUpper(shownText), ToUpper(bare), ToUpper(spaced) }

\* a raw text parsed by HandleRawDataEdited (cOut) and shown again by the
\* format expression of update (cGot)
DoParseFormat ==
    /\ cPhase = "start"
    /\ \E text \in Spellings(cBuf) :
           /\ cShown' = text
           /\ cOut' = IF RawValid(text) THEN fromhex(text) ELSE ErrBuf
           /\ cGot' = IF RawValid(text) /\ ~FormatRaises(cOut')
                      THEN FormatRaw(cOut') ELSE <<>>
    /\ cPhase' = "formatted"
    /\ UNCHANGED <<cField, cOther, cBuf, evars>>

\* lengths of the buffers single bits are addressed in
BufferLens == {0, 1, N - 1, N}

\* single-bit positions addressed, up to past the end of an N-byte buffer
BitPositions == 1..(8 * N + 9)

\* retrieve with a scalar bit p on the first len bytes of the buffer
DoRetrieveBit ==
    /\ cPhase = "start"
    /\ cField.kind = "Checkbox" /\ Len(cField.bit) = 1
    /\ \E p \in BitPositions, len \in BufferLens :
           /\ cField' = CheckboxField(<<p>>, 1)
           /\ cBuf' = SubSeq(cBuf, 1, len)
           /\ cGot' = retrieve(<<p>>, cBuf')
           /\ cOut' = cBuf'
    /\ cPhase' = "bit read"
    /\ UNCHANGED <<cOther, cShown, evars>>

\* insertvalue with a scalar bit p on the first len bytes of the buffer
DoInsertBit ==
    /\ cPhase = "start"
    /\ cField.kind = "Checkbox" /\ Len(cField.bit) = 1
    /\ \E p \in BitPositions, len \in BufferLens :
           /\ cField' = CheckboxField(<<p>>, 1)
           /\ cBuf' = SubSeq(cBuf, 1, len)
           /\ cOut' = insertvalue(<<p>>, cBuf', RawOf(cField, cShown))
    /\ cPhase' = "bit written"
    /\ UNCHANGED <<cOther, cShown, cGot, evars>>

CodecNext ==
    \/ DoRetrieve \/ DoInsert \/ DoEncode \/ DoReencode \/ DoDecode
    \/ DoRetrieveBit \/ DoInsertBit \/ DoParseFormat

vars == <<evars, cvars>>

\* the editor at rest while the codec is exercised
EditorIdle ==
    /\ spritetype = 1
    /\ data = Zeros
    /\ shown = [j \in 1..Len(Sprites[1]) |-> DefaultShown(Sprites[1][j])]
    /\ UpdateFlag = FALSE
    /\ rawText = FormatRaw(Zeros)
    /\ rawInvalid = FALSE
    /\ emitted = <<>>
    /\ raised = FALSE
    /\ deep = FALSE
    /\ looped = FALSE
    /\ notified = <<>>
    /\ calls = <<>>
    /\ lastOp = [op |-> "init", field |-> 0, accepted |-> FALSE]

InitCodec == CodecInit /\ EditorIdle

SpecCodec == InitCodec /\ [][CodecNext]_vars

Init == EditorInit /\ CodecIdle

Next == FieldEdited \/ RawTextEdited \/ BufferReplacedExternally

Spec == Init /\ [][Next]_vars

----------------------------------------------------------------------------
(* Claims on the codec (specification SpecCodec) *)

IsPair(f) == f.kind # "Bitfield" /\ Len(f.bit) = 2

\* C9: retrieve on a pair (start, end) returns the integer formed by all
\* end - start + 1 bits at positions start..end inclusive, MSB first.
C9_GetInclusive ==
    (cPhase = "retrieved" /\ IsPair(cField))
        => cGot = RangeValue(cBuf, cField.bit[1], cField.bit[2])

\* C10: insertvalue on a pair (start, end) leaves the low end - start + 1
\* bits of the value at positions start..end, bit (end - start) at start,
\* so that retrieve on the result gives value mod 2^(end-start+1).
C10_SetInclusive ==
    (cPhase = "inserted" /\ IsPair(cField))
        => LET lo == cField.bit[1]
               hi == cField.bit[2]
               v == RawOf(cField, cShown)
           IN  /\ IsBytes(cOut) /\ Len(cOut) = N
               /\ \A k \in 0..(hi - lo) : BitAt(cOut, hi - k) = ShiftBit(v, k)
               /\ cGot = v % Pow2(hi - lo + 1)

\* C1: decoding a field from the buffer its assign produced for a legal
\* display value gives that value back, for every kind and buffer.
C1_RoundTrip ==
    cPhase = "encoded"
        => /\ IsBytes(cOut) /\ Len(cOut) = N
           /\ ~UpdateRaises(cField, cOut)
           /\ decode(cField, cOut) = cShown

\* C2: assign of field A leaves the decoded value of every field B on
\* disjoint bit positions unchanged.
C2_NonInterference ==
    cPhase = "encoded"
        => /\ IsBytes(cOut) /\ Len(cOut) = N
           /\ decode(cOther, cOut) = decode(cOther, cBuf)

Representable(f, buf) ==
    CASE f.kind = "Checkbox" ->
             BitAnd(retrieve(f.bit, buf), f.mask) \in {0, f.mask}
      [] f.kind = "List" -> existingLookup(f.entries, retrieve(f.bit, buf))
      [] f.kind = "Value" -> retrieve(f.bit, buf) < f.max
      [] OTHER -> TRUE

----------------------------------------------------------------------------
(* Claims on the editor (specification Spec) *)

\* C4: after any accepted transition every field shows the value decoded
\* from the current buffer, the field that originated the edit included.
C4_Consistency ==
    lastOp.accepted
        => \A j \in 1..Len(fields) :
               /\ ~UpdateRaises(fields[j], data)
               /\ shown[j] = decode(fields[j], data)

\* C5: an accepted field edit or raw edit emits DataUpdate exactly once.
C5_OneEmission ==
    (lastOp.accepted /\ lastOp.op \in {"FieldEdited", "RawTextEdited"})
        => Len(emitted) = 1

\* text with every whitespace character removed
StripWhitespace(text) == SelectSeq(text, LAMBDA c : c \notin AsciiWhitespace)

\* a raw text is well-formed: without its whitespace it is exactly 2N hex
\* digits, and it parses as hex
WellFormed(text) ==
    /\ Len(StripWhitespace(text)) = 2 * N
    /\ \A k \in 1..Len(StripWhitespace(text)) : HexValue(StripWhitespace(text)[k]) >= 0
    /\ fromhex(text) # ErrBuf

\* C6: a raw edit with malformed text changes neither the buffer nor any
\* field, emits nothing, and sets the invalid marker.
C6_MalformedRejected ==
    [][(lastOp'.op = "RawTextEdited" /\ rawText' # rawText /\ ~WellFormed(rawText'))
          => /\ data' = data
             /\ shown' = shown
             /\ UpdateFlag' = UpdateFlag
             /\ emitted' = <<>>
             /\ rawInvalid']_vars

\* C7: a raw edit with valid text makes the buffer the 12 bytes parsed from
\* the text, shows every field's decoded value, leaves the guard and the
\* invalid marker clear, and emits DataUpdate once with that buffer.
C7_ValidAccepted ==
    [][(lastOp'.op = "RawTextEdited" /\ rawText' # rawText /\ WellFormed(rawText'))
          => /\ data' = fromhex(rawText')
             /\ Len(data') = N
             /\ \A j \in 1..Len(fields) : shown'[j] = decode(fields[j], data')
             /\ ~UpdateFlag'
             /\ ~rawInvalid'
             /\ emitted' = <<data'>>]_vars

\* C8: the current buffer is a 12-byte buffer in every reachable state.
C8_TwelveBytes == IsBytes(data) /\ Len(data) = N

----------------------------------------------------------------------------
(* Claims on the two paths of retrieve and insertvalue (SpecCodec) *)

\* the pair is exactly one byte of the buffer
ByteAligned(bit) == bit[1] % 8 = 1 /\ bit[2] = bit[1] + 7

\* C11: on a byte-aligned 8-bit range the whole-byte branch and the
\* bit-by-bit loop give the same result: insertvalue returns the buffer the
\* loop would build, retrieve returns the integer the loop would build,
\* for all 256 byte values.
C11_FastPathEquivalence ==
    (cPhase = "inserted" /\ IsPair(cField) /\ ByteAligned(cField.bit))
        => /\ cOut = insertLoop(cBuf, cField.bit[2] - 1, cField.bit[1],
                                RawOf(cField, cShown))
           /\ cGot = retrieveLoop(cOut, cField.bit[1], cField.bit[2], 0)

\* C12: the whole-byte branch of retrieve and insertvalue is taken only for
\* a byte-aligned pair; an 8-bit pair that starts elsewhere reads and writes
\* the bits at positions start..end and no others.
C12_FastPathOnlyAligned ==
    ((cPhase = "retrieved" \/ cPhase = "inserted") /\ IsPair(cField))
        => LET lo == cField.bit[1]
               hi == cField.bit[2]
               v == RawOf(cField, cShown)
           IN  /\ retrieveFastPath(cField.bit) => ByteAligned(cField.bit)
               /\ insertFastPath(cField.bit) => ByteAligned(cField.bit)
               /\ (cPhase = "retrieved" /\ hi = lo + 7 /\ ~ByteAligned(cField.bit))
                      => cGot = RangeValue(cBuf, lo, hi)
               /\ (cPhase = "inserted" /\ hi = lo + 7 /\ ~ByteAligned(cField.bit))
                      => /\ IsBytes(cOut) /\ Len(cOut) = N
                         /\ \A pos \in 1..(8 * N) :
                                BitAt(cOut, pos) =
                                    IF pos \in lo..hi THEN ShiftBit(v, hi - pos)
                                    ELSE BitAt(cBuf, pos)

----------------------------------------------------------------------------
(* Claims on single-bit addressing (SpecCodec) *)

\* C13: insertvalue with a scalar bit beyond the length of the buffer
\* returns a buffer equal to the one it was given.
C13_SetBeyondNoOp ==
    (cPhase = "bit written" /\ cField.bit[1] > 8 * Len(cBuf))
        => /\ IsBytes(cOut)
           /\ cOut = cBuf

\* C14: retrieve with a scalar bit p returns 0 when p is beyond the length
\* of the buffer and the stored bit at p otherwise; it never raises.
C14_GetBitSoftFail ==
    cPhase = "bit read"
        => /\ cGot # Err
           /\ cGot = IF cField.bit[1] > 8 * Len(cBuf) THEN 0
                     ELSE BitAt(cBuf, cField.bit[1])

\* C14 witness: the first position past a 12-byte buffer read as 0, the
\* buffer's last bit being set
C14_Witness ==
    /\ cPhase = "bit read"
    /\ Len(cBuf) = N
    /\ BitAt(cBuf, 8 * N) = 1
    /\ cField.bit[1] = 8 * N + 1
    /\ cGot = 0

----------------------------------------------------------------------------
(* Claims on the decoders (SpecCodec) *)

\* every position the descriptor names lies in the buffer
InBuffer(f, buf) == SpecPositions(f) \subseteq 1..(8 * Len(buf))

\* C15: for a field whose positions all lie within 1..96, neither update
\* nor assign raises on a 12-byte buffer, whatever the buffer holds; this
\* includes a Bitfield whose last position is 96.
C15_NoRaiseInRange ==
    (Len(cBuf) = N /\ InBuffer(cField, cBuf))
        => /\ cPhase = "decoded" => cGot # Err
           /\ cPhase = "encoded" => cOut # ErrBuf
           /\ cPhase = "reencoded" => cOut # ErrBuf

\* C17: Bitfield update shows, for element i, the bit at the 1-indexed
\* position startbit + i, the bit retrieve returns for that scalar position.
C17_BitArrayElements ==
    (cPhase = "decoded" /\ cField.kind = "Bitfield" /\ InBuffer(cField, cBuf))
        => /\ cGot # Err
           /\ \A i \in 0..(cField.bitnum - 1) :
                  cShown[i + 1] = (retrieve(<<cField.startbit + i>>, cBuf) = 1)

\* the positions of a Checkbox field's range that its mask covers: mask bit
\* k (from the least significant) stands for position end - k
MaskPositions(f) ==
    LET hi == IF Len(f.bit) = 2 THEN f.bit[2] ELSE f.bit[1]
    IN  { pos \in SpecPositions(f) : ShiftBit(f.mask, hi - pos) = 1 }

\* C16: Checkbox assign changes no bit other than those its mask covers:
\* the other bits of the range and every bit outside the range are as
\* before, for every buffer, range and mask.
C16_FlagFrame ==
    (cPhase = "encoded" /\ cField.kind = "Checkbox")
        => /\ IsBytes(cOut) /\ Len(cOut) = N
           /\ \A pos \in (1..(8 * N)) \ MaskPositions(cField) :
                  BitAt(cOut, pos) = BitAt(cBuf, pos)

----------------------------------------------------------------------------
(* Claims on the refresh of the fields (specification Spec) *)

\* field j is a List whose raw value in buf is none of its entries
NotListed(j, buf) ==
    /\ fields[j].kind = "List"
    /\ IsBytes(buf) /\ Len(buf) = N
    /\ ~existingLookup(fields[j].entries, retrieve(fields[j].bit, buf))

\* C18: when an accepted operation refreshes a List field from a buffer
\* whose raw value is none of its entries, the field ends with no entry
\* selected, nothing raises, the field signals no update (so no nested
\* handler runs) and the buffer is the one the operation set.
C18_EnumUnset ==
    [][\A j \in 1..Len(fields) :
          (/\ lastOp'.accepted
           /\ j # lastOp'.field
           /\ NotListed(j, data')
           /\ \A k \in 1..Len(notified') : notified'[k] = j)
          => /\ shown'[j] = -1
             /\ notified' = <<>>
             /\ ~raised' /\ ~deep' /\ ~looped'
             /\ lastOp'.op = "FieldEdited"
                    => data' = encode(fields[lastOp'.field],
                                      shown'[lastOp'.field], data)
             /\ lastOp'.op = "RawTextEdited" => data' = fromhex(rawText')]_vars

\* C18 witness: the value 2 entered next to a list of 0, 1, 3 on the same
\* bits; the list shows no entry and one DataUpdate went out
C18_Witness ==
    /\ spritetype = 6
    /\ lastOp.op = "FieldEdited" /\ lastOp.field = 1 /\ lastOp.accepted
    /\ shown[1] = 2
    /\ shown[2] = -1
    /\ notified = <<>>
    /\ Len(emitted) = 1

\* C20: every editor operation returns: no chain of nested field-update
\* notifications re-enters a handler call still in progress on the same
\* field, data and widget values, and none nests MaxDepth deep.
C20_Terminates == ~looped /\ ~deep

----------------------------------------------------------------------------
(* Claims on the raw text (SpecCodec) *)

\* text with its hex digits in lower case
ToLower(text) ==
    [k \in 1..Len(text) |->
        IF HexValue(text[k]) >= 0 THEN HexLower[HexValue(text[k]) + 1] ELSE text[k]]

\* six groups of four hex digits separated by single spaces
Canonical(text) ==
    /\ Len(text) = 29
    /\ \A k \in 1..29 : IF k % 5 = 0 THEN text[k] = " " ELSE HexValue(text[k]) >= 0

\* C19 (as claimed): a valid raw text, parsed and shown again, gives the
\* canonical display, and without its spaces the same string as the text
\* without its spaces, whatever the case of its digits.
C19_TextRoundTripExact ==
    (cPhase = "formatted" /\ RawValid(cShown))
        => /\ Canonical(cGot)
           /\ StripSpaces(cGot) = StripSpaces(cShown)

\* C19 (amended): a valid raw text, parsed and shown again, gives the
\* canonical display, and without its spaces the text without its spaces
\* with every hex digit in lower case; the buffer shown is the one parsed.
C19_TextRoundTripLower ==
    (cPhase = "formatted" /\ RawValid(cShown))
        => /\ Canonical(cGot)
           /\ StripSpaces(cGot) = ToLower(StripSpaces(cShown))
           /\ cOut = cBuf
           /\ fromhex(cGot) = cOut

\* C19 witness: an upper-case text without spaces shown again in lower case
\* with spaces
C19_Witness ==
    /\ cPhase = "formatted"
    /\ RawValid(cShown)
    /\ Len(cShown) = 2 * N
    /\ \E k \in 1..Len(cShown) : cShown[k] = "B"
    /\ cGot = FormatRaw(cBuf)
    /\ cGot # cShown

----------------------------------------------------------------------------
(* Claims on Bitfield assign (SpecCodec) *)

\* C24: Bitfield assign writes only the positions of its own span: in the
\* result the bit at position startbit + i is element i of what the
\* checkboxes show, for every i below bitnum, and every other bit of the
\* buffer is as before (so with element 1 set over byte 0 = 10110000 the
\* bit of element 0 is still 1).
C24_BitArrayFrame ==
    (/\ cPhase = "encoded"
     /\ cField.kind = "Bitfield"
     /\ cField.startbit >= 1
     /\ InBuffer(cField, cBuf))
        => /\ IsBytes(cOut) /\ Len(cOut) = N
           /\ \A pos \in 1..(8 * N) :
                  BitAt(cOut, pos) =
                      IF pos \in SpecPositions(cField)
                      THEN (IF cShown[pos - cField.startbit + 1] THEN 1 ELSE 0)
                      ELSE BitAt(cBuf, pos)

----------------------------------------------------------------------------
(* Claims on the guard and the fan-outs (specification Spec) *)

\* the calls of assign, and of update, made by the last operation
Assigns == { k \in 1..Len(calls) : calls[k].ev = "assign" }
Updates == { k \in 1..Len(calls) : calls[k].ev = "update" }

\* C21: an accepted field edit assigns the edited field to the buffer and
\* no other: a field that signals a change while the fan-out refreshes it
\* is not assigned to the buffer.
C21_NotReentrant ==
    (lastOp.op = "FieldEdited" /\ lastOp.accepted)
        => \A k \in Assigns : k = 1 /\ calls[k].field = lastOp.field

\* C22: a field edit arriving while UpdateFlag is set leaves the buffer and
\* the raw text as they are and emits nothing; and during the fan-out of a
\* valid raw edit or of an external replacement no field is assigned to the
\* buffer, whatever the widgets signal: every field is refreshed from the
\* buffer the operation set, which is the buffer at its end, and no other
\* buffer is emitted.
C22_GuardedIgnored ==
    [][/\ (lastOp'.op = "FieldEdited" /\ UpdateFlag)
           => /\ data' = data
              /\ rawText' = rawText
              /\ emitted' = <<>>
              /\ calls' = <<>>
       /\ (lastOp'.op \in {"RawTextEdited", "BufferReplacedExternally"}
              /\ lastOp'.accepted)
           => /\ Assigns' = {}
              /\ \A k \in Updates' : calls'[k].data = data'
              /\ \A k \in 1..Len(emitted') : emitted'[k] = data'
              /\ lastOp'.op = "RawTextEdited" => data' = fromhex(rawText')
              /\ lastOp'.op = "BufferReplacedExternally" => data' \in EditBuffers]_vars

\* C22 witness: another sprite's data loaded, a spinbox clamped its value
\* and signalled the change during the guarded fan-out, and the buffer is
\* the one loaded
C22_Witness ==
    /\ lastOp.op = "BufferReplacedExternally"
    /\ spritetype = 2
    /\ data = OtherData
    /\ notified = <<2>>
    /\ shown[2] = 5
    /\ Assigns = {}

\* C23: an accepted field edit refreshes every field other than the edited
\* one from the new buffer, never refreshes the edited field, shows the
\* canonical text of the new buffer in the raw editor and clears its
\* invalid marker.
C23_FanOutOthers ==
    (lastOp.op = "FieldEdited" /\ lastOp.accepted)
        => /\ IsBytes(data) /\ Len(data) = N
           /\ \A j \in 1..Len(fields) :
                  IF j = lastOp.field
                  THEN \A k \in Updates : calls[k].field # j
                  ELSE /\ \E k \in Updates : calls[k].field = j
                       /\ \A k \in Updates : calls[k].field = j => calls[k].data = data
           /\ rawText = FormatRaw(data)
           /\ ~rawInvalid

\* C25: assign is never called on a List field whose combobox has no entry
\* selected (current index -1).
C25_EnumNeverEncodedUnset ==
    \A k \in Assigns :
        fields[calls[k].field].kind = "List" => calls[k].value >= 0

\* C25 witness: a field edit has left the list with no entry selected, on a
\* raw value that is none of its entries, and only the edited field was
\* assigned
C25_Witness ==
    /\ lastOp.op = "FieldEdited" /\ lastOp.accepted
    /\ \E j \in 1..Len(fields) :
           /\ fields[j].kind = "List"
           /\ shown[j] = -1
           /\ j # lastOp.field
           /\ \E k \in Updates : calls[k].field = j
           /\ \A k \in Assigns : calls[k].field # j
    /\ Assigns # {}

\* C26 (as claimed): an external replacement does what an accepted raw edit
\* does: guard set, every field refreshed from the new buffer, guard
\* cleared, and DataUpdate emitted with the new buffer.
C26_SameAsRawEdit ==
    [][lastOp'.op = "BufferReplacedExternally"
          => /\ data' \in EditBuffers
             /\ [k \in 1..Len(calls') |-> calls'[k].field] = [j \in 1..Len(fields) |-> j]
             /\ \A k \in 1..Len(calls') : calls'[k].ev = "update" /\ calls'[k].data = data'
             /\ ~UpdateFlag'
             /\ emitted' = <<data'>>]_vars

\* the fields whose update raises on a buffer
Raising(buf) == { j \in 1..Len(fields) : UpdateRaises(fields[j], buf) }

\* C26 (amended): an external replacement makes the same guarded fan-out as
\* an accepted raw edit (every field refreshed once, in order, from the new
\* buffer, the guard clear afterwards, every field showing its decoded
\* value), and it also shows the canonical text of the new buffer in the
\* raw editor and clears the invalid marker; it emits no DataUpdate.  When
\* the update of a field raises, the fan-out ends at that field and the
\* guard stays set.
C26_FanOutNoEmission ==
    [][lastOp'.op = "BufferReplacedExternally"
          => /\ data' \in EditBuffers
             /\ \A k \in 1..Len(calls') :
                    /\ calls'[k].ev = "update"
                    /\ calls'[k].field = k
                    /\ calls'[k].data = data'
             /\ rawText' = FormatRaw(data')
             /\ ~rawInvalid'
             /\ emitted' = <<>>
             /\ IF Raising(data') = {}
                THEN /\ Len(calls') = Len(fields)
                     /\ \A j \in 1..Len(fields) : shown'[j] = decode(fields[j], data')
                     /\ ~UpdateFlag'
                     /\ ~raised'
                ELSE /\ \A j \in Raising(data') : Len(calls') <= j
                     /\ Len(calls') \in Raising(data')
                     /\ UpdateFlag'
                     /\ raised']_vars

\* C26 witness: another sprite's data loaded into an editor of four fields:
\* four updates, the canonical text in the raw editor, nothing emitted
C26_Witness ==
    /\ lastOp.op = "BufferReplacedExternally"
    /\ data = OtherData
    /\ Len(calls) = Len(fields)
    /\ rawText = FormatRaw(OtherData)
    /\ emitted = <<>>
    /\ Len(fields) > 2

\* C27: the buffer of the last DataUpdate an accepted operation emits is
\* the editor's buffer when the operation has returned.
C27_ListenersCurrent ==
    (lastOp.accepted /\ emitted # <<>>) => emitted[Len(emitted)] = data

\* C28: a completed accepted field edit leaves every bit outside the edited
\* field's positions as it was before the edit.
C28_EditFrame ==
    [][(/\ lastOp'.op = "FieldEdited" /\ lastOp'.accepted
        /\ IsBytes(data) /\ Len(data) = N)
          => /\ IsBytes(data') /\ Len(data') = N
             /\ \A pos \in (1..(8 * N)) \ SpecPositions(fields[lastOp'.field]) :
                    BitAt(data', pos) = BitAt(data, pos)]_vars

\* C29: UpdateFlag is clear whenever the editor is at rest.
C29_GuardClear == ~UpdateFlag

\* C30: whenever the raw editor is not marked invalid its text parses to
\* the buffer; and an accepted field edit, a valid raw edit and an external
\* replacement each clear the invalid marker.
C30_RawViewParses ==
    [][/\ ~rawInvalid' => fromhex(rawText') = data'
       /\ (rawInvalid /\ lastOp'.accepted) => ~rawInvalid']_vars

====
